---- MODULE Spec2Model ----
(***************************************************************************)
(* A model of stanutils.py: prepare_dict, read_one_stan_csv and            *)
(* read_stan_csv.                                                          *)
(*                                                                         *)
(* Text is a sequence of symbols.  A symbol is a string that spells a      *)
(* fixed piece of text ("#", " ", "=", ",", ".", a digit, "(Default)",     *)
(* "sigma", "log_", ...); a line is the concatenation of its symbols.  The *)
(* symbols are chosen so that none overlaps another, hence every substring *)
(* test the code performs falls on symbol boundaries.  A line carries no   *)
(* line terminator: every use of a line in the code strips it first or     *)
(* looks only at its beginning.                                            *)
(***************************************************************************)
EXTENDS Integers, Sequences, FiniteSets, TLC

VARIABLES
    files,           \* the input files, each a sequence of lines
    flag,            \* the boolean argument: summary, respectively warmup
    layout,          \* what the input files were rendered from (never read by the code)
    pc,              \* position in the function being run
    fi,              \* index of the file being read
    li,              \* index of the next line of that file
    comment_line,    \* read_one_stan_csv: still in the comment preamble
    summary_flag,    \* read_one_stan_csv: the summary row is still ahead
    WARMUP_STEP,     \* read_stan_csv: the sentinel of this file is still ahead
    header,          \* the column names
    attributes,      \* key -> value, both text
    niter,           \* nsamples handed to prepare_dict
    draws,           \* the draws buffer, a sequence of rows
    n_current_iter,  \* the row cursor
    Extract,         \* [keys: the bases in order, val: base -> container]
    header_map,      \* column name -> <<base, zero-based indices>>
    idx,             \* scatter loop: index of the next header column
    result           \* "none" while running, "returned", or the error raised

vars == <<files, flag, layout, pc, fi, li, comment_line, summary_flag, WARMUP_STEP,
          header, attributes, niter, draws, n_current_iter, Extract, header_map,
          idx, result>>

(***************************************************************************)
(* Bounds of the model.                                                    *)
(***************************************************************************)
MaxSamples == 2      \* largest declared sample count
MaxAttrs == 3        \* most lines of a comment preamble
MaxCols == 2         \* prepare_dict alone: longest header
MaxExtra == 1        \* read_one_stan_csv: most rows beyond the declared ones
MaxWarm == 1         \* read_stan_csv: most warm-up rows of a chain file
NumChains == 2       \* read_stan_csv: number of chain files

(***************************************************************************)
(* Text helpers: the str and re operations the code uses.                  *)
(***************************************************************************)
Digits == <<"0", "1", "2", "3", "4", "5", "6", "7", "8", "9">>

IsDigit(c) == \E d \in 1..10 : Digits[d] = c

DigitVal(c) == (CHOOSE d \in 1..10 : Digits[d] = c) - 1

IsInt(s) == s # <<>> /\ \A i \in 1..Len(s) : IsDigit(s[i])

RECURSIVE ToInt(_)
ToInt(s) ==
    IF s = <<>> THEN 0
    ELSE 10 * ToInt(SubSeq(s, 1, Len(s) - 1)) + DigitVal(s[Len(s)])

RECURSIVE ToText(_)
ToText(n) ==
    IF n < 10 THEN <<Digits[n + 1]>>
    ELSE ToText(n \div 10) \o <<Digits[(n % 10) + 1]>>

StartsWith(s, p) == Len(s) >= Len(p) /\ SubSeq(s, 1, Len(p)) = p

RECURSIVE Strip(_)
Strip(s) ==
    IF s = <<>> THEN s
    ELSE IF Head(s) = " " THEN Strip(Tail(s))
    ELSE IF s[Len(s)] = " " THEN Strip(SubSeq(s, 1, Len(s) - 1))
    ELSE s

RECURSIVE Split(_, _)
Split(s, sep) ==
    IF \E i \in 1..Len(s) : s[i] = sep
    THEN LET i == CHOOSE k \in 1..Len(s) :
                     s[k] = sep /\ \A m \in 1..(k - 1) : s[m] # sep
         IN  <<SubSeq(s, 1, i - 1)>> \o Split(SubSeq(s, i + 1, Len(s)), sep)
    ELSE <<s>>

Join(parts, sep) ==
    LET RECURSIVE J(_)
        J(k) == IF k = 0 THEN <<>>
                ELSE IF k = 1 THEN parts[1]
                ELSE J(k - 1) \o <<sep>> \o parts[k]
    IN  J(Len(parts))

find_equal(line) == \E i \in 1..Len(line) : line[i] = "="

IsReplaced(c) == c = "#" \/ c = "(Default)"

find_replace(line) == SelectSeq(line, LAMBDA c : ~IsReplaced(c))

f7(seq) ==
    LET RECURSIVE U(_)
        U(k) == IF k = 0 THEN <<>>
                ELSE LET r == U(k - 1)
                     IN  IF \E m \in 1..Len(r) : r[m] = seq[k] THEN r
                         ELSE Append(r, seq[k])
    IN  U(Len(seq))

(***************************************************************************)
(* numpy arrays.  An array is [shape, data]: data maps every zero-based    *)
(* index tuple of the shape to a number.                                   *)
(***************************************************************************)
RECURSIVE Indices(_)
Indices(shape) ==
    IF shape = <<>> THEN {<<>>}
    ELSE {<<i>> \o t : i \in 0..(shape[1] - 1), t \in Indices(Tail(shape))}

np_zeros(shape) == [shape |-> shape, data |-> [t \in Indices(shape) |-> 0]]

\* A Python index i on an axis of extent d: negative indices count from the end.
NormIndex(i, d) == IF i < 0 THEN i + d ELSE i

InRange(i, d) == NormIndex(i, d) >= 0 /\ NormIndex(i, d) < d

\* arr[ix[0]]...[ix[k-1]] = v, v one-dimensional: the indices select a
\* sub-array, v is broadcast to its shape (equal last extent, or length 1).
SetItem(arr, ix, v) ==
    LET k    == Len(ix)
        r    == Len(arr.shape)
        nix  == [j \in 1..k |-> NormIndex(ix[j], arr.shape[j])]
        sub  == SubSeq(arr.shape, k + 1, r)
        last == sub[Len(sub)]
    IN  IF k > r THEN [err |-> "TypeError", arr |-> arr]
        ELSE IF \E j \in 1..k : ~InRange(ix[j], arr.shape[j])
        THEN [err |-> "IndexError", arr |-> arr]
        ELSE IF sub = <<>> /\ Len(v) # 1 THEN [err |-> "ValueError", arr |-> arr]
        ELSE IF sub # <<>> /\ Len(v) # last /\ Len(v) # 1
        THEN [err |-> "ValueError", arr |-> arr]
        ELSE [err |-> "none",
              arr |-> [arr EXCEPT !.data =
                         [t \in DOMAIN arr.data |->
                            IF SubSeq(t, 1, k) = nix
                            THEN IF Len(v) = 1 THEN v[1] ELSE v[t[r] + 1]
                            ELSE arr.data[t]]]]

(***************************************************************************)
(* prepare_dict                                                            *)
(***************************************************************************)
\* re.compile(i + '(\..+)?$') matching at position p of l: the text of i, then
\* either the end of l or a dot followed by at least one more symbol.
MatchAt(i, l, p) ==
    /\ p + Len(i) - 1 <= Len(l)
    /\ SubSeq(l, p, p + Len(i) - 1) = i
    /\ \/ p + Len(i) - 1 = Len(l)
       \/ l[p + Len(i)] = "." /\ p + Len(i) < Len(l)

\* re_search.search(l): the leftmost match, as <<m.group(0)>>, or <<>>.
re_search(i, l) ==
    IF \E p \in 1..Len(l) : MatchAt(i, l, p)
    THEN LET p == CHOOSE q \in 1..Len(l) :
                     MatchAt(i, l, q) /\ \A m \in 1..(q - 1) : ~MatchAt(i, l, m)
         IN  <<SubSeq(l, p, Len(l))>>
    ELSE <<>>

match_idx(i, hdr) ==
    LET RECURSIVE M(_)
        M(k) == IF k = 0 THEN <<>> ELSE M(k - 1) \o re_search(i, hdr[k])
    IN  M(Len(hdr))

DigitRun(e, from) ==
    CHOOSE n \in 0..Len(e) :
        /\ \A m \in from..(from + n - 1) : m <= Len(e) /\ IsDigit(e[m])
        /\ (from + n > Len(e) \/ ~IsDigit(e[from + n]))

\* re.findall('\.(\d+)', e), each group converted by int().
RECURSIVE re_findall(_)
re_findall(e) ==
    IF Len(e) < 2 THEN <<>>
    ELSE IF e[1] = "." /\ IsDigit(e[2])
    THEN LET n == DigitRun(e, 2)
         IN  <<ToInt(SubSeq(e, 2, n + 1))>> \o re_findall(SubSeq(e, n + 2, Len(e)))
    ELSE re_findall(Tail(e))

name_without_index(hdr) == f7([k \in 1..Len(hdr) |-> Split(hdr[k], ".")[1]])

ZeroBased(dims) == [k \in 1..Len(dims) |-> dims[k] - 1]

EmptyDict == [keys |-> <<>>, val |-> <<>>]

\* One pass of the loop over the bases: allocate Extract[i] from the last
\* match, then record every match in header_name_to_merged.
PrepareBase(acc, i, hdr, nsamples) ==
    LET m == match_idx(i, hdr)
    IN  IF acc.err # "none" THEN acc
        ELSE IF m = <<>> THEN [acc EXCEPT !.err = "IndexError"]
        ELSE LET e      == m[Len(m)]
                 re_dim == re_findall(e) \o <<nsamples>>
                 found  == {m[k] : k \in 1..Len(m)}
             IN  [Extract |->
                      [keys |-> Append(acc.Extract.keys, i),
                       val  |-> (i :> np_zeros(re_dim)) @@ acc.Extract.val],
                  header_map |->
                      [j \in found |-> <<i, ZeroBased(re_findall(j))>>]
                          @@ acc.header_map,
                  err |-> "none"]

prepare_dict(hdr, nsamples) ==
    LET names == name_without_index(hdr)
        RECURSIVE P(_)
        P(k) == IF k = 0
                THEN [Extract |-> EmptyDict, header_map |-> <<>>, err |-> "none"]
                ELSE PrepareBase(P(k - 1), names[k], hdr, nsamples)
    IN  P(Len(names))

(***************************************************************************)
(* The scatter step shared by both readers, and the rows of the buffer.    *)
(***************************************************************************)
DimError == "ValueError: Not implemented for arrays with dim>2"

Column(d, k) == [r \in 1..Len(d) |-> d[r][k]]

\* ScatterColumn without its last branch: a column of more than 2 indices is
\* passed over like a column without indices.
ScatterColumn_NoDimCheck(E, hm, hdr, d, k) ==
    LET i == hdr[k]
    IN  IF i \notin DOMAIN hm THEN [err |-> "IndexError", Extract |-> E]
        ELSE LET l   == hm[i]
                 set == SetItem(E.val[l[1]], l[2], Column(d, k))
             IN  IF Len(l[2]) = 2 \/ Len(l[2]) = 1
                 THEN [err |-> set.err,
                       Extract |-> [E EXCEPT !.val[l[1]] = set.arr]]
                 ELSE [err |-> "none", Extract |-> E]

\* The body of `for idx, i in enumerate(header)`, for the k-th column.
\* header_map is a defaultdict(list): a missing key gives [], and l[0] fails.
ScatterColumn(E, hm, hdr, d, k) ==
    LET i == hdr[k]
    IN  IF i \notin DOMAIN hm THEN [err |-> "IndexError", Extract |-> E]
        ELSE LET l           == hm[i]
                 arr         == E.val[l[1]]
                 ix          == l[2]
                 draw_values == Column(d, k)
                 set         == SetItem(arr, ix, draw_values)
             IN  IF Len(ix) = 2 \/ Len(ix) = 1
                 THEN [err |-> set.err,
                       Extract |-> [E EXCEPT !.val[l[1]] = set.arr]]
                 ELSE IF Len(ix) = 0
                 THEN [err |-> "none", Extract |-> E]   \* arr = draw_values rebinds a local
                 ELSE [err |-> DimError, Extract |-> E]

\* float() of one field of a row.
IsFloat(field) == IsInt(Strip(field))

\* draws[n, :] = vals, the fields still text: the row index is checked, the
\* fields are converted, and the values are broadcast to the row.
SetRow(d, n, ncols, vals) ==
    IF n >= Len(d) THEN [err |-> "IndexError", draws |-> d]
    ELSE IF \E k \in 1..Len(vals) : ~IsFloat(vals[k])
    THEN [err |-> "ValueError", draws |-> d]
    ELSE IF Len(vals) = ncols
    THEN [err |-> "none",
          draws |-> [d EXCEPT ![n + 1] = [k \in 1..ncols |-> ToInt(Strip(vals[k]))]]]
    ELSE IF Len(vals) = 1
    THEN [err |-> "none",
          draws |-> [d EXCEPT ![n + 1] = [k \in 1..ncols |-> ToInt(Strip(vals[1]))]]]
    ELSE [err |-> "ValueError", draws |-> d]

\* np.empty leaves the buffer uninitialised: what a cell holds before it is
\* written is arbitrary.  The model draws one arbitrary value per buffer.
Garbage == {0, 7}

np_empty(rows, cols, g) == [r \in 1..rows |-> [k \in 1..cols |-> g]]

\* ParseAttribute that keeps the value a key already has.
ParseAttribute_KeepFirst(attrs, line) ==
    LET parts == Split(Strip(find_replace(line)), "=")
    IN  IF Len(parts) # 2 THEN [err |-> "ValueError", attributes |-> attrs]
        ELSE [err |-> "none",
              attributes |-> attrs @@ (Strip(parts[1]) :> Strip(parts[2]))]

\* The comment branch: strip the marker and "(Default)", split on "=", store.
ParseAttribute(attrs, line) ==
    LET parts == Split(Strip(find_replace(line)), "=")
    IN  IF Len(parts) # 2 THEN [err |-> "ValueError", attributes |-> attrs]
        ELSE [err |-> "none",
              attributes |-> (Strip(parts[1]) :> Strip(parts[2])) @@ attrs]

HasKey(attrs, key) == <<key>> \in DOMAIN attrs

(***************************************************************************)
(* read_one_stan_csv                                                       *)
(***************************************************************************)
Raise(e) ==
    /\ result' = e
    /\ pc' = "raised"

\* One pass of `for line in fh`.
OneLine ==
    /\ pc = "one_read"
    /\ li <= Len(files[1])
    /\ \E g \in Garbage :
        LET line == files[1][li]
            hdr  == Split(Strip(line), ",")
            attr == ParseAttribute(attributes, line)
            set  == SetRow(draws, n_current_iter, Len(header), Split(Strip(line), ","))
        IN  IF ~StartsWith(line, <<"#">>) /\ comment_line
            THEN IF ~HasKey(attributes, "output_samples")
                 THEN /\ Raise("KeyError")
                      /\ header' = hdr
                      /\ UNCHANGED <<li, comment_line, summary_flag, attributes, niter,
                                     draws, n_current_iter>>
                 ELSE IF ~IsInt(attributes[<<"output_samples">>])
                 THEN /\ Raise("ValueError")
                      /\ header' = hdr
                      /\ UNCHANGED <<li, comment_line, summary_flag, attributes, niter,
                                     draws, n_current_iter>>
                 ELSE LET n == ToInt(attributes[<<"output_samples">>])
                      IN  /\ header' = hdr
                          /\ niter' = n
                          /\ draws' = np_empty(IF flag THEN n + 1 ELSE n, Len(hdr), g)
                          /\ comment_line' = FALSE
                          /\ li' = li + 1
                          /\ UNCHANGED <<pc, result, summary_flag, attributes,
                                         n_current_iter>>
            ELSE IF comment_line /\ find_equal(line)
            THEN IF attr.err # "none"
                 THEN /\ Raise(attr.err)
                      /\ UNCHANGED <<li, comment_line, summary_flag, header, attributes,
                                     niter, draws, n_current_iter>>
                 ELSE /\ attributes' = attr.attributes
                      /\ li' = li + 1
                      /\ UNCHANGED <<pc, result, comment_line, summary_flag, header,
                                     niter, draws, n_current_iter>>
            ELSE IF ~comment_line
            THEN IF ~flag /\ summary_flag
                 THEN /\ summary_flag' = FALSE
                      /\ li' = li + 1
                      /\ UNCHANGED <<pc, result, comment_line, header, attributes,
                                     niter, draws, n_current_iter>>
                 ELSE IF set.err # "none"
                 THEN /\ Raise(set.err)
                      /\ UNCHANGED <<li, comment_line, summary_flag, header, attributes,
                                     niter, draws, n_current_iter>>
                 ELSE /\ draws' = set.draws
                      /\ n_current_iter' = n_current_iter + 1
                      /\ li' = li + 1
                      /\ UNCHANGED <<pc, result, comment_line, summary_flag, header,
                                     attributes, niter>>
            ELSE /\ li' = li + 1
                 /\ UNCHANGED <<pc, result, comment_line, summary_flag, header,
                                attributes, niter, draws, n_current_iter>>
    /\ UNCHANGED <<files, flag, layout, fi, WARMUP_STEP, Extract, header_map, idx>>

\* End of the file: Extract, header_map = prepare_dict(header, niter).
\* With no header line niter was never bound.
OneTranslate ==
    /\ pc = "one_read"
    /\ li > Len(files[1])
    /\ LET r == prepare_dict(header, niter)
       IN  IF header = <<>>
           THEN /\ Raise("NameError")
                /\ UNCHANGED <<Extract, header_map, idx>>
           ELSE IF r.err # "none"
           THEN /\ Raise(r.err)
                /\ UNCHANGED <<Extract, header_map, idx>>
           ELSE /\ Extract' = r.Extract
                /\ header_map' = r.header_map
                /\ idx' = 1
                /\ pc' = "one_scatter"
                /\ UNCHANGED result
    /\ UNCHANGED <<files, flag, layout, fi, li, comment_line, summary_flag, WARMUP_STEP,
                   header, attributes, niter, draws, n_current_iter>>

OneScatter ==
    /\ pc = "one_scatter"
    /\ idx <= Len(header)
    /\ LET s == ScatterColumn(Extract, header_map, header, draws, idx)
       IN  IF s.err # "none"
           THEN /\ Raise(s.err)
                /\ UNCHANGED <<Extract, idx>>
           ELSE /\ Extract' = s.Extract
                /\ idx' = idx + 1
                /\ UNCHANGED <<pc, result>>
    /\ UNCHANGED <<files, flag, layout, fi, li, comment_line, summary_flag, WARMUP_STEP,
                   header, attributes, niter, draws, n_current_iter, header_map>>

OneReturn ==
    /\ pc = "one_scatter"
    /\ idx > Len(header)
    /\ result' = "returned"
    /\ pc' = "done"
    /\ UNCHANGED <<files, flag, layout, fi, li, comment_line, summary_flag, WARMUP_STEP,
                   header, attributes, niter, draws, n_current_iter, Extract,
                   header_map, idx>>

NextOne == OneLine \/ OneTranslate \/ OneScatter \/ OneReturn

(***************************************************************************)
(* Input files.  A file is rendered from a layout; the readers see only    *)
(* the rendered lines.                                                     *)
(***************************************************************************)
Name(base, dims) ==
    LET RECURSIVE D(_)
        D(k) == IF k = 0 THEN <<>> ELSE D(k - 1) \o <<".">> \o ToText(dims[k])
    IN  base \o D(Len(dims))

mu == <<"mu">>
sigma == <<"sigma">>
log_sigma == <<"log_", "sigma">>
sigma_sq == <<"sigma", "_sq">>
beta == <<"beta">>
lp__ == <<"lp", "__">>
xarr == <<"x">>

AttrLine(key, val, dflt) ==
    <<"#", " ", " ", key, " ", "=", " ">> \o val
        \o (IF dflt THEN <<" ", "(Default)">> ELSE <<>>)

PlainComment == <<"#", " ", "method">>

HeaderLine(hdr) == Join(hdr, ",")

RowLine(vals) == Join([k \in 1..Len(vals) |-> ToText(vals[k])], ",")

\* The value a file holds in data row r, column j.
Cell(c, r, j) == 100 * c + 10 * r + j

RowValues(c, r, width) == [j \in 1..width |-> Cell(c, r, j)]

OneHeaders ==
    { <<mu>>,
      <<mu, Name(sigma, <<1>>), Name(sigma, <<2>>)>>,
      <<Name(beta, <<1, 1>>), Name(beta, <<1, 2>>), Name(beta, <<2, 1>>),
        Name(beta, <<2, 2>>)>>,
      <<mu, Name(xarr, <<1, 1, 1>>)>>,
      <<Name(sigma, <<1>>), Name(log_sigma, <<1>>), Name(log_sigma, <<2>>)>>,
      <<Name(sigma, <<1>>), Name(sigma_sq, <<1>>)>> }

RowKinds == {"ok", "one", "long", "blank"}

\* decl: the declared output_samples, -1 when the line is absent; nrows: the
\* lines after the header, the summary row first; bad: the one row (0: none)
\* that is not "ok", and its kind.
OneLayouts ==
    { l \in [decl : {-1} \cup 1..MaxSamples, hdr : OneHeaders,
             nrows : 0..(MaxSamples + 1 + MaxExtra),
             bad : 0..(MaxSamples + 1 + MaxExtra), kind : RowKinds] :
        /\ l.bad <= l.nrows
        /\ (l.bad = 0) = (l.kind = "ok") }

OneRow(l, r) ==
    LET w == Len(l.hdr)
    IN  IF r # l.bad THEN RowLine(RowValues(0, r, w))
        ELSE IF l.kind = "one" THEN RowLine(RowValues(0, r, 1))
        ELSE IF l.kind = "long" THEN RowLine(RowValues(0, r, w + 1))
        ELSE <<>>

RenderOne(l) ==
    <<PlainComment>>
        \o (IF l.decl >= 0
            THEN <<AttrLine("output_samples", ToText(l.decl), TRUE)>> ELSE <<>>)
        \o <<HeaderLine(l.hdr)>>
        \o [r \in 1..l.nrows |-> OneRow(l, r)]

InitCommon ==
    /\ fi = 1
    /\ li = 1
    /\ comment_line = TRUE
    /\ summary_flag = TRUE
    /\ WARMUP_STEP = TRUE
    /\ header = <<>>
    /\ attributes = <<>>
    /\ niter = -1
    /\ draws = <<>>
    /\ n_current_iter = 0
    /\ Extract = EmptyDict
    /\ header_map = <<>>
    /\ idx = 0
    /\ result = "none"

InitOne ==
    /\ layout \in OneLayouts
    /\ files = <<RenderOne(layout)>>
    /\ flag \in BOOLEAN
    /\ pc = "one_read"
    /\ InitCommon

SpecOne == InitOne /\ [][NextOne]_vars

(***************************************************************************)
(* Properties of read_one_stan_csv (checked under SpecOne).                *)
(***************************************************************************)
Finished == pc = "done" \/ pc = "raised"

BaseOf(name) == Split(name, ".")[1]

IndicesOf(name) ==
    LET p == Split(name, ".") IN [k \in 1..(Len(p) - 1) |-> ToInt(p[k + 1])]

\* The samples a container holds in the cell at the zero-based indices ix.
CellSamples(arr, ix) ==
    [t \in 1..arr.shape[Len(arr.shape)] |-> arr.data[ix \o <<t - 1>>]]

SupportedHeaders ==
    { <<mu>>,
      <<mu, Name(sigma, <<1>>), Name(sigma, <<2>>)>>,
      <<Name(beta, <<1, 1>>), Name(beta, <<1, 2>>), Name(beta, <<2, 1>>),
        Name(beta, <<2, 2>>)>> }

\* A valid file: output_samples = N declared, the summary row and N draw
\* rows of the header's width, a header of plain rank 0, 1 and 2 parameters.
ValidOne(l) ==
    /\ l.decl >= 0
    /\ l.nrows = l.decl + 1
    /\ l.bad = 0
    /\ l.hdr \in SupportedHeaders

\* C1: a valid file with output_samples = N is read successfully and every
\* base's container holds N+1 samples along its last axis with summary=True,
\* N with summary=False.
C1_SampleCount ==
    (ValidOne(layout) /\ Finished) =>
        /\ result = "returned"
        /\ \A k \in 1..Len(Extract.keys) :
              LET shape == Extract.val[Extract.keys[k]].shape
              IN  shape[Len(shape)] = IF flag THEN layout.decl + 1 ELSE layout.decl

\* C2: after a successful read by either reader, the value stored under a
\* base whose column has no dotted index is that column of the buffer, in row
\* order (not the zero-filled array prepare_dict allocated).
C2_RankZeroHoldsColumn ==
    result = "returned" =>
        \A k \in 1..Len(header) :
            IndicesOf(header[k]) = <<>> =>
                LET arr == Extract.val[header[k]]
                IN  /\ Len(arr.shape) = 1
                    /\ CellSamples(arr, <<>>) = Column(draws, k)

\* The position in the file of the r-th line after the header.
OneRowPos(l, r) == (IF l.decl >= 0 THEN 3 ELSE 2) + r

OneRowWidth(l, r) ==
    IF r # l.bad THEN Len(l.hdr)
    ELSE IF l.kind = "long" THEN Len(l.hdr) + 1
    ELSE 1

\* C7: a data row whose value count differs from the header length makes the
\* read fail at that row: the reader never moves past such a row.
C7_RowWidthError ==
    \A r \in 1..layout.nrows :
        (/\ OneRowWidth(layout, r) # Len(layout.hdr)
         /\ (flag \/ r > 1)) =>
            ~(li > OneRowPos(layout, r))

HasDeepColumn(hdr) == \E k \in 1..Len(hdr) : Len(IndicesOf(hdr[k])) > 2

ColumnsOf(hdr, b) == {k \in 1..Len(hdr) : BaseOf(hdr[k]) = b}

Max(S) == CHOOSE x \in S : \A y \in S : y <= x

\* The columns of b all carry the same number (1 or 2) of 1-based indices and
\* the last of them carries the maximum of each dimension.
WellIndexed(hdr, b) ==
    LET cols == ColumnsOf(hdr, b)
        last == hdr[Max(cols)]
        rank == Len(IndicesOf(last))
    IN  /\ rank \in {1, 2}
        /\ \A k \in cols :
              /\ Len(IndicesOf(hdr[k])) = rank
              /\ \A d \in 1..rank :
                    /\ IndicesOf(hdr[k])[d] >= 1
                    /\ IndicesOf(hdr[k])[d] <= IndicesOf(last)[d]

\* C3: for a well-indexed base b, prepare_dict allocates the shape
\* (extents of the last column of b, nsamples), and after a successful read
\* the cell of every column b.i or b.i.j holds that column's draws.
C3_IndexedCells ==
    \A n \in 1..Len(Extract.keys) :
        LET b    == Extract.keys[n]
            last == header[Max(ColumnsOf(header, b))]
            arr  == Extract.val[b]
        IN  WellIndexed(header, b) =>
                /\ arr.shape = IndicesOf(last) \o <<niter>>
                /\ result = "returned" =>
                      \A k \in ColumnsOf(header, b) :
                          CellSamples(arr, ZeroBased(IndicesOf(header[k])))
                              = Column(draws, k)

(***************************************************************************)
(* prepare_dict called on its own (SpecPrep).                              *)
(***************************************************************************)
PrepNames ==
    { sigma, Name(sigma, <<1>>), Name(sigma, <<2>>),
      log_sigma, Name(log_sigma, <<1>>), Name(log_sigma, <<2>>),
      Name(sigma_sq, <<1>>), mu, Name(beta, <<1, 2>>), Name(xarr, <<1, 2, 3>>) }

\* Headers of up to MaxCols distinct column names.
PrepHeaders ==
    UNION { { h \in [1..n -> PrepNames] :
                \A a, b \in 1..n : a # b => h[a] # h[b] } : n \in 1..MaxCols }

InitPrep ==
    /\ header \in PrepHeaders
    /\ niter \in 0..MaxSamples
    /\ layout = [hdr |-> header]
    /\ files = <<>>
    /\ flag = FALSE
    /\ pc = "prepare"
    /\ fi = 1
    /\ li = 1
    /\ comment_line = TRUE
    /\ summary_flag = TRUE
    /\ WARMUP_STEP = TRUE
    /\ attributes = <<>>
    /\ draws = <<>>
    /\ n_current_iter = 0
    /\ Extract = EmptyDict
    /\ header_map = <<>>
    /\ idx = 0
    /\ result = "none"

PrepCall ==
    /\ pc = "prepare"
    /\ LET r == prepare_dict(header, niter)
       IN  IF r.err # "none"
           THEN /\ Raise(r.err)
                /\ UNCHANGED <<Extract, header_map>>
           ELSE /\ Extract' = r.Extract
                /\ header_map' = r.header_map
                /\ result' = "returned"
                /\ pc' = "done"
    /\ UNCHANGED <<files, flag, layout, fi, li, comment_line, summary_flag, WARMUP_STEP,
                   header, attributes, niter, draws, n_current_iter, idx>>

NextPrep == PrepCall

SpecPrep == InitPrep /\ [][NextPrep]_vars

\* C10: the columns collected for a base b are exactly the header entries
\* whose text before the first dot is b, so a column of another base that
\* contains b as a prefix or suffix changes neither the index entries nor the
\* shape of b, and a base without a dotted column gets a rank-0 container.
C10_AnchoredMatch ==
    result = "returned" =>
        \A n \in 1..Len(Extract.keys) :
            LET b    == Extract.keys[n]
                cols == ColumnsOf(header, b)
                last == header[Max(cols)]
            IN  /\ {j \in DOMAIN header_map : header_map[j][1] = b}
                      = {header[k] : k \in cols}
                /\ Extract.val[b].shape = IndicesOf(last) \o <<niter>>
                /\ (\A k \in cols : IndicesOf(header[k]) = <<>>) =>
                      Extract.val[b].shape = <<niter>>

(***************************************************************************)
(* read_stan_csv                                                           *)
(***************************************************************************)
Sentinel == <<"#", " ", "Adaptation terminated">>

nchains == Len(files)

\* The first pass over csvfiles[0]: attributes, then the header and break.
\* When the file ends without a header the loop just ends.
MultiFirst ==
    /\ pc = "multi_first"
    /\ LET line == files[1][li]
           attr == ParseAttribute(attributes, line)
       IN  IF li > Len(files[1])
           THEN /\ pc' = "multi_alloc"
                /\ UNCHANGED <<li, header, attributes, result>>
           ELSE IF ~StartsWith(line, <<"#">>)
           THEN /\ header' = Split(Strip(line), ",")
                /\ pc' = "multi_alloc"
                /\ UNCHANGED <<li, attributes, result>>
           ELSE IF find_equal(line)
           THEN IF attr.err # "none"
                THEN /\ Raise(attr.err)
                     /\ UNCHANGED <<li, header, attributes>>
                ELSE /\ attributes' = attr.attributes
                     /\ li' = li + 1
                     /\ UNCHANGED <<pc, result, header>>
           ELSE /\ li' = li + 1
                /\ UNCHANGED <<pc, result, header, attributes>>
    /\ UNCHANGED <<files, flag, layout, fi, comment_line, summary_flag, WARMUP_STEP,
                   niter, draws, n_current_iter, Extract, header_map, idx>>

\* nsamples, nwarmup, niter and the buffer of niter*nchains rows.
MultiAlloc ==
    /\ pc = "multi_alloc"
    /\ \E g \in Garbage :
        IF ~HasKey(attributes, "num_samples") \/ ~HasKey(attributes, "num_warmup")
        THEN /\ Raise("KeyError")
             /\ UNCHANGED <<niter, draws, n_current_iter, fi>>
        ELSE IF \/ ~IsInt(attributes[<<"num_samples">>])
                \/ ~IsInt(attributes[<<"num_warmup">>])
        THEN /\ Raise("ValueError")
             /\ UNCHANGED <<niter, draws, n_current_iter, fi>>
        ELSE IF header = <<>>
        THEN /\ Raise("NameError")
             /\ UNCHANGED <<niter, draws, n_current_iter, fi>>
        ELSE LET nsamples == ToInt(attributes[<<"num_samples">>])
                 nwarmup  == ToInt(attributes[<<"num_warmup">>])
                 n        == IF flag THEN nsamples + nwarmup ELSE nsamples
             IN  /\ niter' = n
                 /\ draws' = np_empty(n * nchains, Len(header), g)
                 /\ n_current_iter' = 0
                 /\ fi' = 1
                 /\ pc' = "multi_open"
                 /\ UNCHANGED result
    /\ UNCHANGED <<files, flag, layout, li, comment_line, summary_flag, WARMUP_STEP,
                   header, attributes, Extract, header_map, idx>>

\* OpenChain that starts every file at row 0 of the buffer.
OpenChain_ResetCursor(w, n) == [WARMUP_STEP |-> TRUE, n_current_iter |-> 0]

\* OpenChain that leaves the phase flag as the previous file left it.
OpenChain_KeepPhase(w, n) == [WARMUP_STEP |-> w, n_current_iter |-> n]

\* The top of `for mcmc_file in csvfiles`: the phase flag is set again, the
\* row cursor is left as it is.
OpenChain(w, n) == [WARMUP_STEP |-> TRUE, n_current_iter |-> n]

MultiOpen ==
    /\ pc = "multi_open"
    /\ fi <= nchains
    /\ WARMUP_STEP' = OpenChain(WARMUP_STEP, n_current_iter).WARMUP_STEP
    /\ n_current_iter' = OpenChain(WARMUP_STEP, n_current_iter).n_current_iter
    /\ li' = 1
    /\ pc' = "multi_read"
    /\ UNCHANGED <<files, flag, layout, fi, comment_line, summary_flag, header,
                   attributes, niter, draws, Extract, header_map, idx, result>>

\* The body of `for line in fh` for one line: w is WARMUP_STEP, d the buffer,
\* n the row cursor.
ChainLine(line, w, d, n, ncols, warmup) ==
    LET sentinel == StartsWith(line, Sentinel)
        w2       == IF sentinel THEN FALSE ELSE w
        skipped  == /\ ~sentinel
                    /\ \/ StartsWith(line, <<"#">>)
                       \/ StartsWith(line, <<"lp">>)
                       \/ ~warmup /\ w
        vals     == Split(Strip(line), ",")
        set      == SetRow(d, n, ncols, vals)
    IN  IF skipped \/ Len(vals) <= 1
        THEN [WARMUP_STEP |-> w2, draws |-> d, n_current_iter |-> n, err |-> "none"]
        ELSE IF set.err # "none"
        THEN [WARMUP_STEP |-> w2, draws |-> d, n_current_iter |-> n, err |-> set.err]
        ELSE [WARMUP_STEP |-> w2, draws |-> set.draws, n_current_iter |-> n + 1,
              err |-> "none"]

MultiLine ==
    /\ pc = "multi_read"
    /\ LET s == ChainLine(files[fi][li], WARMUP_STEP, draws, n_current_iter,
                          Len(header), flag)
       IN  IF li > Len(files[fi])
           THEN /\ fi' = fi + 1
                /\ pc' = "multi_open"
                /\ UNCHANGED <<li, WARMUP_STEP, draws, n_current_iter, result>>
           ELSE IF s.err # "none"
           THEN /\ Raise(s.err)
                /\ WARMUP_STEP' = s.WARMUP_STEP
                /\ UNCHANGED <<fi, li, draws, n_current_iter>>
           ELSE /\ WARMUP_STEP' = s.WARMUP_STEP
                /\ draws' = s.draws
                /\ n_current_iter' = s.n_current_iter
                /\ li' = li + 1
                /\ UNCHANGED <<fi, pc, result>>
    /\ UNCHANGED <<files, flag, layout, comment_line, summary_flag, header, attributes,
                   niter, Extract, header_map, idx>>

\* After the last file: Extract, header_map = prepare_dict(header, niter*nchains).
MultiTranslate ==
    /\ pc = "multi_open"
    /\ fi > nchains
    /\ LET r == prepare_dict(header, niter * nchains)
       IN  IF r.err # "none"
           THEN /\ Raise(r.err)
                /\ UNCHANGED <<Extract, header_map, idx>>
           ELSE /\ Extract' = r.Extract
                /\ header_map' = r.header_map
                /\ idx' = 1
                /\ pc' = "multi_scatter"
                /\ UNCHANGED result
    /\ UNCHANGED <<files, flag, layout, fi, li, comment_line, summary_flag, WARMUP_STEP,
                   header, attributes, niter, draws, n_current_iter>>

MultiScatter ==
    /\ pc = "multi_scatter"
    /\ idx <= Len(header)
    /\ LET s == ScatterColumn(Extract, header_map, header, draws, idx)
       IN  IF s.err # "none"
           THEN /\ Raise(s.err)
                /\ UNCHANGED <<Extract, idx>>
           ELSE /\ Extract' = s.Extract
                /\ idx' = idx + 1
                /\ UNCHANGED <<pc, result>>
    /\ UNCHANGED <<files, flag, layout, fi, li, comment_line, summary_flag, WARMUP_STEP,
                   header, attributes, niter, draws, n_current_iter, header_map>>

MultiReturn ==
    /\ pc = "multi_scatter"
    /\ idx > Len(header)
    /\ result' = "returned"
    /\ pc' = "done"
    /\ UNCHANGED <<files, flag, layout, fi, li, comment_line, summary_flag, WARMUP_STEP,
                   header, attributes, niter, draws, n_current_iter, Extract,
                   header_map, idx>>

NextMulti ==
    \/ MultiFirst
    \/ MultiAlloc
    \/ MultiOpen
    \/ MultiLine
    \/ MultiTranslate
    \/ MultiScatter
    \/ MultiReturn

(***************************************************************************)
(* Chain files.  All chains of a run declare num_samples = S and           *)
(* num_warmup = W and carry the same header; when warm-up draws were saved *)
(* each file holds W warm-up rows before the sentinel.  A chain file is    *)
(* "full" (S sampling rows), "short" (S-1), "long" (S+1), or "nosent" (S   *)
(* rows and no sentinel line, as a sampler without adaptation writes).     *)
(***************************************************************************)
ChainKinds == {"full", "short", "long", "nosent"}

MultiHeaders ==
    { <<lp__, mu, Name(sigma, <<1>>), Name(sigma, <<2>>)>>,
      <<mu, Name(sigma, <<1>>)>>,
      <<lp__>> }

MultiLayouts ==
    [S : 1..MaxSamples, W : 0..MaxWarm, saved : BOOLEAN, hdr : MultiHeaders,
     kinds : [1..NumChains -> ChainKinds]]

WarmRows(l) == IF l.saved THEN l.W ELSE 0

SampRows(l, c) ==
    IF l.kinds[c] = "short" THEN l.S - 1
    ELSE IF l.kinds[c] = "long" THEN l.S + 1
    ELSE l.S

HasSentinel(l, c) == l.kinds[c] # "nosent"

StepSizeComment == <<"#", " ", "Step size", " ", "=", " ", "1">>

Preamble(l) ==
    <<PlainComment, AttrLine("num_samples", ToText(l.S), TRUE),
      AttrLine("num_warmup", ToText(l.W), FALSE)>>

RenderChain(l, c) ==
    Preamble(l)
        \o <<HeaderLine(l.hdr)>>
        \o [r \in 1..WarmRows(l) |-> RowLine(RowValues(c, r, Len(l.hdr)))]
        \o (IF HasSentinel(l, c) THEN <<Sentinel, StepSizeComment>> ELSE <<>>)
        \o [r \in 1..SampRows(l, c) |->
               RowLine(RowValues(c, WarmRows(l) + r, Len(l.hdr)))]

InitMulti ==
    /\ layout \in MultiLayouts
    /\ files = [c \in 1..NumChains |-> RenderChain(layout, c)]
    /\ flag \in BOOLEAN
    /\ pc = "multi_first"
    /\ InitCommon

SpecMulti == InitMulti /\ [][NextMulti]_vars

(***************************************************************************)
(* Properties of read_stan_csv (checked under SpecMulti).  They speak of   *)
(* the layout the files were rendered from.                                *)
(***************************************************************************)
DataRows(l, c) == WarmRows(l) + SampRows(l, c)

\* The line of chain file c that holds its r-th data row.
RowPos(l, c, r) ==
    IF r > WarmRows(l) /\ HasSentinel(l, c) THEN 6 + r ELSE 4 + r

AfterSentinel(l, c, r) == HasSentinel(l, c) /\ r > WarmRows(l)

\* A row of more than one value is to be written when warm-up is included
\* or the row follows the sentinel of its own file.
Contributes(l, c, r) == Len(l.hdr) > 1 /\ (flag \/ AfterSentinel(l, c, r))

\* The line has been consumed by the second pass.
Consumed(c, pos) == c < fi \/ (c = fi /\ pc # "multi_open" /\ pos < li)

ContributedRows(l, c) ==
    LET rows == [r \in 1..DataRows(l, c) |-> r]
        kept == SelectSeq(rows, LAMBDA r : Contributes(l, c, r))
    IN  [k \in 1..Len(kept) |-> RowValues(c, kept[k], Len(l.hdr))]

ConsumedRows(l, c) ==
    LET rows == [r \in 1..DataRows(l, c) |-> r]
        kept == SelectSeq(rows, LAMBDA r :
                    Contributes(l, c, r) /\ Consumed(c, RowPos(l, c, r)))
    IN  [k \in 1..Len(kept) |-> RowValues(c, kept[k], Len(l.hdr))]

RECURSIVE ExpectedBuffer(_, _)
ExpectedBuffer(l, c) ==
    IF c = 0 THEN <<>> ELSE ExpectedBuffer(l, c - 1) \o ConsumedRows(l, c)

\* C4: the chain files are processed in input order with one row cursor:
\* the written part of the buffer is the rows contributed by chain 1 in file
\* order, then those of chain 2, and so on; when every chain contributes k
\* rows, the buffer row at offset c*k is the first row contributed by the
\* chain after the first c chains.
C4_ChainOrder ==
    /\ SubSeq(draws, 1, n_current_iter) = ExpectedBuffer(layout, NumChains)
    /\ \A k \in 1..Len(draws) :
          (/\ result = "returned"
           /\ \A c \in 1..NumChains : Len(ContributedRows(layout, c)) = k) =>
              \A c \in 1..NumChains :
                  draws[(c - 1) * k + 1] = ContributedRows(layout, c)[1]

C4_Witness ==
    /\ result = "returned"
    /\ n_current_iter = 2 * NumChains
    /\ \A c \in 1..NumChains : Len(ContributedRows(layout, c)) = 2
    /\ draws[3] = RowValues(2, WarmRows(layout) + 1, Len(header))

\* The data row held by line pos of chain file c, 0 when that line is none.
RowAt(l, c, pos) ==
    IF \E r \in 1..DataRows(l, c) : RowPos(l, c, r) = pos
    THEN CHOOSE r \in 1..DataRows(l, c) : RowPos(l, c, r) = pos
    ELSE 0

\* C5 as stated: unless the read fails there, a pass over a data row writes
\* it when warm-up is included or the sentinel of the same file precedes it,
\* and leaves the buffer alone otherwise.
C5_EveryDataRowWritten ==
    [][(pc = "multi_read" /\ li <= Len(files[fi]) /\ pc' # "raised") =>
          LET r == RowAt(layout, fi, li)
          IN  r # 0 =>
                IF flag \/ AfterSentinel(layout, fi, r)
                THEN /\ n_current_iter' = n_current_iter + 1
                     /\ draws' = [draws EXCEPT ![n_current_iter + 1] =
                                     RowValues(fi, r, Len(header))]
                ELSE UNCHANGED <<draws, n_current_iter>>]_vars

\* C5 as amended: a pass over one line that does not fail writes the line
\* exactly when it is a data row of more than one value and either warm-up
\* is included or the sentinel of the same file precedes it; a sentinel of
\* an earlier chain file does not count, and a row of a single value is
\* passed over like a blank line.
C5_WarmupExcluded ==
    [][(pc = "multi_read" /\ li <= Len(files[fi]) /\ pc' # "raised") =>
          LET r == RowAt(layout, fi, li)
          IN  IF r # 0 /\ Contributes(layout, fi, r)
              THEN /\ n_current_iter' = n_current_iter + 1
                   /\ draws' = [draws EXCEPT ![n_current_iter + 1] =
                                   RowValues(fi, r, Len(header))]
              ELSE UNCHANGED <<draws, n_current_iter>>]_vars

\* A warm-up row of the second chain has been passed over without being
\* written, the first chain having had its sentinel and written its rows.
C5_Witness ==
    /\ ~flag
    /\ pc = "multi_read"
    /\ fi = 2
    /\ li = 6
    /\ WarmRows(layout) >= 1
    /\ HasSentinel(layout, 1)
    /\ Len(header) > 1
    /\ n_current_iter = SampRows(layout, 1)
    /\ n_current_iter >= 1

\* C6: read_stan_csv returns only when every row of the buffer was written.
C6_UnderfilledIsError ==
    result = "returned" => n_current_iter = Len(draws)

(***************************************************************************)
(* Comment preambles (SpecAttr): both readers on files whose preamble is   *)
(* any sequence of up to MaxAttrs lines, followed by a header and the rows *)
(* the preamble declares.                                                  *)
(***************************************************************************)
Item(kind, key, val, dflt) == [kind |-> kind, key |-> key, val |-> val, dflt |-> dflt]

PreItems ==
    { Item("attr", "output_samples", <<"1">>, TRUE),
      Item("attr", "output_samples", <<"2">>, FALSE),
      Item("attr", "num_samples", <<"1">>, TRUE),
      Item("attr", "num_samples", <<"2">>, FALSE),
      Item("attr", "num_warmup", <<"0">>, TRUE),
      Item("comment", "method", <<>>, FALSE),
      Item("twoeq", "init", <<"a", "=", "b">>, FALSE) }

Preambles == UNION { [1..n -> PreItems] : n \in 0..MaxAttrs }

AttrLayouts == [pre : Preambles, reader : {"one", "multi"}]

RenderItem(it) ==
    IF it.kind = "comment" THEN <<"#", " ", it.key>>
    ELSE AttrLine(it.key, it.val, it.dflt)

\* The number the preamble declares for key: that of the last line for it.
Declared(pre, key) ==
    LET at == {k \in 1..Len(pre) : pre[k].kind = "attr" /\ pre[k].key = key}
    IN  IF at = {} THEN 0 ELSE ToInt(pre[Max(at)].val)

AttrHeader == <<lp__, mu>>

RenderAttr(l) ==
    LET pre == [k \in 1..Len(l.pre) |-> RenderItem(l.pre[k])]
        n   == Declared(l.pre, "output_samples")
        s   == Declared(l.pre, "num_samples")
    IN  IF l.reader = "one"
        THEN << pre \o <<HeaderLine(AttrHeader)>>
                    \o [r \in 1..(n + 1) |-> RowLine(RowValues(0, r, 2))] >>
        ELSE [c \in 1..NumChains |->
                 pre \o <<HeaderLine(AttrHeader), Sentinel, StepSizeComment>>
                     \o [r \in 1..s |-> RowLine(RowValues(c, r, 2))]]

InitAttr ==
    /\ layout \in AttrLayouts
    /\ files = RenderAttr(layout)
    /\ flag = FALSE
    /\ pc = (IF layout.reader = "one" THEN "one_read" ELSE "multi_first")
    /\ InitCommon

NextAttr == NextOne \/ NextMulti

SpecAttr == InitAttr /\ [][NextAttr]_vars

AttrItems(pre) == {k \in 1..Len(pre) : pre[k].kind = "attr"}

HeaderSeen == header # <<>>

\* C8 as stated: the returned attributes hold one entry per comment line
\* with "=", each line's key mapped to that line's value.
C8_OneEntryPerLine ==
    result = "returned" =>
        /\ Cardinality(DOMAIN attributes) = Cardinality(AttrItems(layout.pre))
        /\ \A k \in AttrItems(layout.pre) :
              /\ <<layout.pre[k].key>> \in DOMAIN attributes
              /\ attributes[<<layout.pre[k].key>>] = layout.pre[k].val

\* C8 as amended: once the header has been read, and from then on, the
\* attributes hold one entry per distinct key of the comment lines with one
\* "=", the key and value trimmed and without "#" and "(Default)", a key
\* that several lines set mapping to the value of the last of them; lines
\* without "=" add nothing; a comment line with two "=" makes the read fail.
C8_LastLineWins ==
    /\ HeaderSeen =>
          /\ DOMAIN attributes = {<<layout.pre[k].key>> : k \in AttrItems(layout.pre)}
          /\ \A k \in AttrItems(layout.pre) :
                (\A m \in AttrItems(layout.pre) :
                    layout.pre[m].key = layout.pre[k].key => m <= k) =>
                    attributes[<<layout.pre[k].key>>] = layout.pre[k].val
    /\ (\E k \in 1..Len(layout.pre) : layout.pre[k].kind = "twoeq") =>
          /\ ~HeaderSeen
          /\ result \in {"none", "ValueError"}
          /\ pc = "done" \/ pc = "raised" => result = "ValueError"

\* A returned read of a preamble that sets a key twice, with a "(Default)"
\* suffix and a comment line without "=".
C8_Witness ==
    /\ result = "returned"
    /\ \E a, b, c \in 1..Len(layout.pre) :
          /\ a < b
          /\ layout.pre[a].kind = "attr"
          /\ layout.pre[b].kind = "attr"
          /\ layout.pre[a].key = layout.pre[b].key
          /\ layout.pre[a].val # layout.pre[b].val
          /\ layout.pre[a].dflt
          /\ layout.pre[c].kind = "comment"

====
